---- MODULE Spec2Model ----
(***************************************************************************)
(* A model of the nodecode / decodeless header library:                    *)
(*   - linear_memory_resource  (include/nodecode/allocate.hpp)             *)
(*   - Version, Magic, PlatformBits, RootHeader and its directory          *)
(*                             (include/decodeless/header.hpp)             *)
(* Addresses and sizes are machine words of WordBits bits; all address     *)
(* arithmetic is done modulo W as uintptr_t arithmetic is in the source.   *)
(***************************************************************************)
EXTENDS Integers, Sequences, FiniteSets, TLC

(* ------------------------------ bounds --------------------------------- *)
\* width of uintptr_t / size_t in the model
WordBits == 6
W == 2 ^ WordBits

Words == 0 .. (W - 1)

(* --------------------------- word arithmetic --------------------------- *)
\* unsigned negation: -x for uintptr_t
Neg(x) == (W - x) % W

RECURSIVE BitAnd(_, _)
\* x & y on unsigned words
BitAnd(x, y) ==
    IF x = 0 \/ y = 0 THEN 0
    ELSE (IF x % 2 = 1 /\ y % 2 = 1 THEN 1 ELSE 0) + 2 * BitAnd(x \div 2, y \div 2)

(* ------------------------------ inputs --------------------------------- *)
\* addresses the parent allocator returns from allocate(initialSize)
Bases == {0, 4, 8}
\* initialSize passed to the constructor
InitialSizes == {16, 23}
\* alignments requested (alignof of some type: powers of two)
Aligns == {1, 4, 8}
\* byte counts requested, including the largest size_t values
ByteSizes == {0, 1, 4, 8, W - 4, W - 1}
\* an address other than m_begin that reallocate may return (moved buffer)
MovedTo(begin) == (begin + 32) % W
ReallocAnswers(begin) == {begin, MovedTo(begin)}

VARIABLES
    canReallocate,  \* CanReallocate<ParentAllocator>
    m_begin,        \* std::byte* m_begin
    m_next,         \* uintptr_t m_next
    m_end,          \* uintptr_t m_end
    ret,            \* what the last call did and returned
    tracked,        \* the ranges handed out are being recorded (until the first one out of order)
    hwm,            \* largest addr + bytes over the ranges handed out since the last reset
    wasReset,       \* reset() has been called
    failedBefore,   \* an allocate call failed before the last reset()
    constructed,    \* [begin, next, end] as the constructor set them
    g_next,         \* cursor of a freshly constructed arena replaying the calls made since the last reset
    g_ret,          \* what the replayed call returned
    handedOut,      \* an allocate call has succeeded since construction or the last reset()
    parent          \* the calls m_parentAllocator has received

arenaVars == <<canReallocate, m_begin, m_next, m_end, ret, tracked, hwm, wasReset,
               failedBefore, constructed, g_next, g_ret, handedOut, parent>>

(* ----------------------- linear_memory_resource ------------------------ *)
\* bytesAllocated(): m_next - m_begin
bytesAllocatedOf(next, begin) == (next - begin + W) % W
bytesAllocated == bytesAllocatedOf(m_next, m_begin)

\* bytesReserved(): m_end - m_begin
bytesReservedOf(end, begin) == (end - begin + W) % W
bytesReserved == bytesReservedOf(m_end, m_begin)

\* arena()
arena == m_begin

\* uintptr_t result = m_next + ((-m_next) & (align - 1));
AlignedResult(next, align) == (next + BitAnd(Neg(next), (align - 1 + W) % W)) % W

\* m_next = result + bytes;
AdvancedNext(result, bytes) == (result + bytes) % W

\* if (m_next > m_end)
Overflows(next, end) == next > end

\* the whole of allocate(bytes, align) on an arena (begin, next, end);
\* answer is what m_parentAllocator.reallocate would return if it is called
allocate(can, begin, next, end, bytes, align, answer) ==
    LET result == AlignedResult(next, align)
        next1  == AdvancedNext(result, bytes)
        over   == Overflows(next1, end)
        called == over /\ can
        thrown == over /\ (IF can THEN answer # begin ELSE TRUE)
    IN  [ next    |-> next1,
          ok      |-> ~thrown,
          addr    |-> result,
          called  |-> called,
          answer  |-> IF called THEN answer ELSE begin ]

NoCall == [kind |-> "none", ok |-> TRUE, addr |-> 0, bytes |-> 0, align |-> 1,
           called |-> FALSE, answer |-> 0]

CallRecord(kind, r, bytes, align) ==
    [kind |-> kind, ok |-> r.ok, addr |-> r.addr, bytes |-> bytes, align |-> align,
     called |-> r.called, answer |-> r.answer]

\* the parent allocator after allocate(n) returned p: one allocate, no deallocate yet
ParentAllocated(p, n) ==
    [allocates |-> 1, allocatedPtr |-> p, allocatedBytes |-> n,
     deallocates |-> 0, deallocatedPtr |-> 0, deallocatedBytes |-> 0]

\* the object has not been destroyed
Alive == parent.deallocates = 0

\* linear_memory_resource(initialSize, parentAllocator), the parent's allocate
\* returning begin
Construct(begin, initialSize, can, track) ==
    /\ canReallocate = can
    /\ m_begin = begin
    /\ m_next = begin
    /\ m_end = (begin + initialSize) % W
    /\ ret = NoCall
    /\ tracked = track
    /\ hwm = 0
    /\ wasReset = FALSE
    /\ failedBefore = FALSE
    /\ constructed = [begin |-> begin, next |-> begin, end |-> (begin + initialSize) % W]
    /\ g_next = begin
    /\ g_ret = NoCall
    /\ handedOut = FALSE
    /\ parent = ParentAllocated(begin, initialSize)

ArenaInit ==
    \E begin \in Bases, initialSize \in InitialSizes, can \in BOOLEAN :
        Construct(begin, initialSize, can, FALSE)

\* one arena without reallocate whose handed-out ranges are recorded
RangesInit == Construct(8, 23, FALSE, TRUE)

\* the arena of the specifications that are not about the allocator
ArenaIdle == Construct(0, 23, FALSE, FALSE)

Max(a, b) == IF a >= b THEN a ELSE b

Allocate ==
    \E bytes \in ByteSizes, align \in Aligns, answer \in ReallocAnswers(m_begin) :
       LET r == allocate(canReallocate, m_begin, m_next, m_end, bytes, align, answer)
           g == allocate(canReallocate, constructed.begin, g_next, constructed.end,
                         bytes, align, answer)
       IN  /\ Alive
           /\ m_next' = r.next
           /\ ret' = CallRecord("allocate", r, bytes, align)
           /\ tracked' = (tracked /\ ~(r.ok /\ r.addr < hwm))
           /\ hwm' = IF tracked' /\ r.ok THEN Max(hwm, r.addr + bytes)
                     ELSE IF tracked' THEN hwm ELSE 0
           /\ g_next' = g.next
           /\ g_ret' = CallRecord("allocate", g, bytes, align)
           /\ handedOut' = (handedOut \/ r.ok)
           /\ UNCHANGED <<canReallocate, m_begin, m_end, wasReset, failedBefore, constructed,
                          parent>>

\* deallocate(p, bytes): do nothing
Deallocate ==
    /\ Alive
    /\ ret.kind = "allocate"
    /\ ret' = [ret EXCEPT !.kind = "deallocate"]
    /\ g_ret' = [g_ret EXCEPT !.kind = "deallocate"]
    /\ UNCHANGED <<canReallocate, m_begin, m_next, m_end, tracked, hwm, wasReset,
                   failedBefore, constructed, g_next, handedOut, parent>>

\* reset() rewinding to address zero instead of the start of the buffer
ResetValue_Zero(begin) == 0

\* the value reset() stores into m_next
ResetValue(begin) == begin

\* reset()
Reset ==
    /\ Alive
    /\ m_next' = ResetValue(m_begin)
    /\ wasReset' = TRUE
    /\ failedBefore' = Overflows(m_next, m_end)
    /\ hwm' = 0
    /\ ret' = [NoCall EXCEPT !.kind = "reset"]
    /\ g_next' = constructed.next
    /\ g_ret' = [NoCall EXCEPT !.kind = "reset"]
    /\ handedOut' = FALSE
    /\ UNCHANGED <<canReallocate, m_begin, m_end, tracked, constructed, parent>>

\* the byte count the destructor passes: bytesAllocated()
DeallocatedBytes(next, begin, end) == bytesAllocatedOf(next, begin)

\* ~linear_memory_resource(): m_parentAllocator.deallocate(m_begin, bytesAllocated())
Destroy ==
    /\ Alive
    /\ parent' = [parent EXCEPT !.deallocates = 1,
                                !.deallocatedPtr = m_begin,
                                !.deallocatedBytes = DeallocatedBytes(m_next, m_begin, m_end)]
    /\ ret' = [NoCall EXCEPT !.kind = "destroy"]
    /\ g_ret' = [NoCall EXCEPT !.kind = "destroy"]
    /\ UNCHANGED <<canReallocate, m_begin, m_next, m_end, tracked, hwm, wasReset,
                   failedBefore, constructed, g_next, handedOut>>

(* ------------------------------ Version -------------------------------- *)
\* width of the uint32_t fields of Version in the model
VerBits == 5
\* static constexpr uint32_t InvalidValue = 0xffffffff: every bit of the field set
InvalidValue == 2 ^ VerBits - 1
\* largest ordinary version number drawn
MaxVer == 2
VerVals == (0 .. MaxVer) \cup {InvalidValue}
Versions == [major : VerVals, minor : VerVals, patch : VerVals]

\* Version{}: every field defaults to InvalidValue
DefaultVersion == [major |-> InvalidValue, minor |-> InvalidValue, patch |-> InvalidValue]

\* binaryCompatible also requiring the supported patch to reach the loaded one
VersionBinaryCompatible_Patch(supported, loaded) ==
    /\ loaded.major # InvalidValue
    /\ supported.major = loaded.major
    /\ supported.minor >= loaded.minor
    /\ supported.patch >= loaded.patch

\* binaryCompatible requiring a strictly newer supported minor
VersionBinaryCompatible_StrictMinor(supported, loaded) ==
    /\ loaded.major # InvalidValue
    /\ supported.major = loaded.major
    /\ supported.minor > loaded.minor

\* Version::binaryCompatible(supported, loaded)
VersionBinaryCompatible(supported, loaded) ==
    /\ loaded.major # InvalidValue
    /\ supported.major = loaded.major
    /\ supported.minor >= loaded.minor

VARIABLES
    supported,      \* first argument of Version::binaryCompatible
    loaded,         \* second argument of Version::binaryCompatible
    checked,        \* the call has been made
    compat          \* its result

versionVars == <<supported, loaded, checked, compat>>

VersionInit ==
    /\ supported \in Versions
    /\ loaded \in Versions
    /\ checked = FALSE
    /\ compat = FALSE

VersionIdle ==
    /\ supported = DefaultVersion
    /\ loaded = DefaultVersion
    /\ checked = FALSE
    /\ compat = FALSE

CheckVersion ==
    /\ ~checked
    /\ checked' = TRUE
    /\ compat' = VersionBinaryCompatible(supported, loaded)
    /\ UNCHANGED <<supported, loaded>>

(* ------------------------------- Magic --------------------------------- *)
\* std::array<char, 16>
MagicLen == 16

\* Magic(const char (&str)[N]): the characters of str, zero filled to 16 bytes
MagicOf(str) == [i \in 1 .. MagicLen |-> IF i <= Len(str) THEN str[i] ELSE 0]

\* Magic::operator<: std::string comparison of the 16 bytes
MagicLess(a, b) ==
    \E i \in 1 .. MagicLen :
        /\ \A j \in 1 .. (i - 1) : a[j] = b[j]
        /\ a[i] < b[i]

\* static constexpr Magic DecodelessMagic{"DECODELESS->FILE"};
DecodelessMagic == MagicOf(<<68, 69, 67, 79, 68, 69, 76, 69, 83, 83, 45, 62, 70, 73, 76, 69>>)

(* ---------------------------- PlatformBits ----------------------------- *)
\* enum PlatformFlags
ePlatformX32 == 0
ePlatformX64 == 1
ePlatformEndianBig == 2
ePlatformEndianLittle == 3

\* the platforms a process runs on: sizeof(size_t) and std::endian::native
Platforms == [wordSize : {4, 8}, endian : {"big", "little"}]

\* PlatformBits(): the set of bits of the bitset that are set
PlatformBits(p) ==
    {f \in {ePlatformX32} : p.wordSize = 4} \cup
    {f \in {ePlatformX64} : p.wordSize = 8} \cup
    {f \in {ePlatformEndianBig} : p.endian = "big"} \cup
    {f \in {ePlatformEndianLittle} : p.endian = "little"}

(* ----------------------------- RootHeader ------------------------------ *)
\* static constexpr Version VersionSupported{0, 1, 0};
VersionSupported == [major |-> 0, minor |-> 1, patch |-> 0]

\* find(): if (headers.size() < 16)
LinearScanBelow == 16

NullPtr == 0

\* HeaderIdentifier of the header types looked up: Ext1 "    a", Ext2 "    b", AppHeader "APP"
Ext1Id == MagicOf(<<32, 32, 32, 32, 97>>)
Ext2Id == MagicOf(<<32, 32, 32, 32, 98>>)
AppId == MagicOf(<<65, 80, 80>>)
HeaderTypes == {Ext1Id, Ext2Id, AppId}

\* versions a writer of another release of the library stores in the root header
RootVersions == {v \in Versions : v.patch \in {0, MaxVer}}

\* the byte a corruption writes: rootHeader.decodelessMagic[10] = 'a'
CorruptByte == 97

(* the buffer: a root header, the directory array, then the sub-headers *)
\* the directory sizes exercised: both sides of LinearScanBelow
MaxHeaders == 17

\* the address the writer builds the buffer at, and how far a reader's mapping is from it
WriterBases == {1024}
Relocations == {-1000, 24}

\* the array of offset_ptr<Header> follows the RootHeader: createArray after create
DirOffset == 72
PtrSize == 8
\* the sub-header objects follow the array
HeaderSize == 68
SubOffset == DirOffset + MaxHeaders * PtrSize

\* the address of slot k of the directory and of the j-th sub-header, buffer at base
SlotAddr(base, k) == base + DirOffset + (k - 1) * PtrSize
SubHeaderAddr(base, j) == base + SubOffset + (j - 1) * HeaderSize

\* offset_ptr: the stored relation of a null pointer
NullRelation == 0
\* offset_ptr::operator=(T*): the relation stored in the pointer at address self
OffsetPtrSet(self, target) == IF target = NullPtr THEN NullRelation ELSE target - self
\* offset_ptr::get(): the address the pointer stored at address self refers to
OffsetPtrGet(self, rel) == IF rel = NullRelation THEN NullPtr ELSE self + rel

\* a byte of an array<char, 16> on which no writer put an identifier
ZeroMagic == MagicOf(<< >>)

\* static constexpr Version VersionSupported{1, 0, 0} of AppHeader
AppVersionSupported == [major |-> 1, minor |-> 0, patch |-> 0]
\* the types with a VersionSupported, looked up with findSupported
VersionedTypes == {AppId}
VersionSupportedOf(id) == AppVersionSupported
\* the versions a writer of the application stores in its AppHeader
AppStoredVersions == {AppVersionSupported, [major |-> 1, minor |-> 1, patch |-> 0]}

\* memcpy(&e.identifier.front(), &++nextId, sizeof(nextId)) after fill(0):
\* the identifier of the j-th header of the loop, distinct for j < 23
FillerId(j) == MagicOf(<<20 + 5 * ((7 * j) % 23)>>)
\* the places in a directory of n slots an application puts its own header at; 0: nowhere
Places(n) == {0, 1, (n + 1) \div 2, n}
\* an identifier no header type has and no loop wrote
CorruptId == MagicOf(<<250>>)

\* the directories of a root header file: the sub-headers each slot points to
Directories == { << >>, <<1>>, <<1, 2>>, <<2, 1>> }
\* what the two sub-headers of those files store
RootSubHeaders == << [identifier |-> Ext1Id, version |-> AppVersionSupported],
                     [identifier |-> Ext2Id, version |-> AppVersionSupported] >>

VARIABLES
    identifier,         \* Magic identifier
    decodelessMagic,    \* Magic decodelessMagic
    decodelessVersion,  \* Version decodelessVersion
    platformBits,       \* PlatformBits platformBits, as stored
    headers,            \* HeaderList headers: the relation stored in each slot
    host,               \* the platform of the reading process
    seen,               \* what the reader's calls returned
    bufBase,            \* the address the buffer is mapped at
    subHeaders,         \* the Header part of the j-th sub-header object of the buffer
    stage,              \* how far the writer is: "allocated", "filled", "sorted"
    overwritten         \* an identifier was overwritten after the directory was filled

rootVars == <<identifier, decodelessMagic, decodelessVersion, platformBits, headers, host, seen>>
bufferVars == <<bufBase, subHeaders, stage, overwritten>>

\* nothing read since the buffer was last written; base: the address it was read at
Unread == [read |-> FALSE, base |-> NullPtr, magicValid |-> FALSE, binaryCompatible |-> FALSE,
           find |-> [id \in HeaderTypes |-> NullPtr],
           findSupported |-> [id \in VersionedTypes |-> NullPtr]]

\* magicValid() comparing all but the last byte
MagicValidOf_Prefix(magic) ==
    \A i \in 1 .. (MagicLen - 1) : magic[i] = DecodelessMagic[i]

\* RootHeader::magicValid() on a stored magic
MagicValidOf(magic) == magic = DecodelessMagic
magicValid == MagicValidOf(decodelessMagic)

\* binaryCompatible() that forgets the platform fingerprint
RootBinaryCompatible_VersionOnly(version, bits, p) ==
    VersionBinaryCompatible(VersionSupported, version)

\* RootHeader::binaryCompatible() on stored version and fingerprint, read on platform p
RootBinaryCompatible(version, bits, p) ==
    /\ VersionBinaryCompatible(VersionSupported, version)
    /\ bits = PlatformBits(p)
binaryCompatible == RootBinaryCompatible(decodelessVersion, platformBits, host)

\* the bytes at an address read as a Header: a sub-header object where one starts
SubHeaderAt ==
    [a \in Int |->
        LET j == (a - bufBase - SubOffset) \div HeaderSize + 1
        IN  IF j \in DOMAIN subHeaders /\ a = SubHeaderAddr(bufBase, j)
            THEN subHeaders[j]
            ELSE [identifier |-> ZeroMagic, version |-> DefaultVersion]]

\* ptr->identifier, result->get() that take the stored relation for the address
HeaderPtrs_Raw(base, raw) == raw

\* the Header* each element of the span converts to: ptr->identifier, result->get()
HeaderPtrs(base, raw) ==
    [k \in 1 .. Len(raw) |-> OffsetPtrGet(SlotAddr(base, k), raw[k])]

\* file.headers[k] = &e for each slot: the relations that make slot k point at targets[k]
StoreDirectory(base, targets) ==
    [k \in 1 .. Len(targets) |-> OffsetPtrSet(SlotAddr(base, k), targets[k])]

\* std::find_if(headers.begin(), headers.end(), identifier == headerIdentifier):
\* the index of the first match, Len + 1 for headers.end()
FindIf(dir, id) ==
    LET hits == {i \in 1 .. Len(dir) : SubHeaderAt[dir[i]].identifier = id}
    IN  IF hits = {} THEN Len(dir) + 1
        ELSE CHOOSE i \in hits : \A j \in hits : i <= j

RECURSIVE LowerBoundFrom_UpperBound(_, _, _, _)
\* std::upper_bound in the place of std::lower_bound
LowerBoundFrom_UpperBound(dir, id, first, len) ==
    IF len <= 0 THEN first
    ELSE LET half == len \div 2
             mid  == first + half
         IN  IF ~MagicLess(id, SubHeaderAt[dir[mid]].identifier)
             THEN LowerBoundFrom_UpperBound(dir, id, mid + 1, len - half - 1)
             ELSE LowerBoundFrom_UpperBound(dir, id, first, half)

RECURSIVE LowerBoundFrom(_, _, _, _)
\* std::lower_bound(first, first + len, id, HeaderPtrComp())
LowerBoundFrom(dir, id, first, len) ==
    IF len <= 0 THEN first
    ELSE LET half == len \div 2
             mid  == first + half
         IN  IF MagicLess(SubHeaderAt[dir[mid]].identifier, id)
             THEN LowerBoundFrom(dir, id, mid + 1, len - half - 1)
             ELSE LowerBoundFrom(dir, id, first, half)

\* find() that takes the binary search for every size
Find_BinaryOnly(dir, id) ==
    LET result ==
            LET lb == LowerBoundFrom(dir, id, 1, Len(dir))
            IN  IF lb # Len(dir) + 1 /\ SubHeaderAt[dir[lb]].identifier # id
                THEN Len(dir) + 1 ELSE lb
    IN  IF result = Len(dir) + 1 THEN NullPtr ELSE dir[result]

\* RootHeader::find<HeaderType>() with HeaderType::HeaderIdentifier = id
Find(dir, id) ==
    LET result ==
            IF Len(dir) < LinearScanBelow THEN FindIf(dir, id)
            ELSE LET lb == LowerBoundFrom(dir, id, 1, Len(dir))
                 IN  IF lb # Len(dir) + 1 /\ SubHeaderAt[dir[lb]].identifier # id
                     THEN Len(dir) + 1 ELSE lb
    IN  IF result = Len(dir) + 1 THEN NullPtr ELSE dir[result]
find == [id \in HeaderTypes |-> Find(HeaderPtrs(bufBase, headers), id)]

\* findSupported() without the version test
FindSupported_Unchecked(dir, id, supportedVersion) == Find(dir, id)

\* RootHeader::findSupported<HeaderType>() with HeaderType::VersionSupported = supportedVersion
FindSupported(dir, id, supportedVersion) ==
    LET result == Find(dir, id)
    IN  IF result # NullPtr /\ VersionBinaryCompatible(supportedVersion, SubHeaderAt[result].version)
        THEN result ELSE NullPtr
findSupported ==
    [id \in VersionedTypes |->
        FindSupported(HeaderPtrs(bufBase, headers), id, VersionSupportedOf(id))]

\* RootHeader(identifier) constructed on platform writer
ConstructRoot(id, writer) ==
    /\ identifier = id
    /\ decodelessMagic = DecodelessMagic
    /\ decodelessVersion = VersionSupported
    /\ platformBits = PlatformBits(writer)

RootInit ==
    /\ \E writer \in Platforms : ConstructRoot(MagicOf(<<116, 101, 115, 116>>), writer)
    /\ bufBase \in WriterBases
    /\ \E d \in Directories :
         /\ subHeaders = SubSeq(RootSubHeaders, 1, Len(d))
         /\ headers = StoreDirectory(bufBase, [k \in 1 .. Len(d) |-> SubHeaderAddr(bufBase, d[k])])
    /\ stage = "filled"
    /\ overwritten = FALSE
    /\ host \in Platforms
    /\ seen = Unread

RootIdle ==
    /\ ConstructRoot(MagicOf(<<116, 101, 115, 116>>), [wordSize |-> 8, endian |-> "little"])
    /\ bufBase \in WriterBases
    /\ subHeaders = << >>
    /\ headers = << >>
    /\ stage = "filled"
    /\ overwritten = FALSE
    /\ host = [wordSize |-> 8, endian |-> "little"]
    /\ seen = Unread

\* rootHeader.decodelessMagic[i] = b on a header whose magic was valid
CorruptMagic ==
    /\ magicValid
    /\ \E i \in 1 .. MagicLen :
         decodelessMagic' = [decodelessMagic EXCEPT ![i] = CorruptByte]
    /\ seen' = Unread
    /\ UNCHANGED <<identifier, decodelessVersion, platformBits, headers, host, bufferVars>>

\* a writer built from another release stores its own framework version
StoreVersion ==
    /\ \E v \in RootVersions : decodelessVersion' = v
    /\ seen' = Unread
    /\ UNCHANGED <<identifier, decodelessMagic, platformBits, headers, host, bufferVars>>

\* the reader calls magicValid(), binaryCompatible(), find<T>() and findSupported<T>()
\* for each type, on a directory whose slots all point at a header
ReadRoot ==
    /\ ~(seen.read /\ seen.base = bufBase)
    /\ stage # "allocated"
    /\ seen' = [read |-> TRUE, base |-> bufBase, magicValid |-> magicValid, binaryCompatible |-> binaryCompatible,
                find |-> find, findSupported |-> findSupported]
    /\ UNCHANGED <<identifier, decodelessMagic, decodelessVersion, platformBits, headers, host,
                   bufferVars>>

(* ------------------------ writing the directory ------------------------ *)
\* HeaderPtrComp::operator()(const offset_ptr<Header>& a, const offset_ptr<Header>& b)
HeaderPtrComp(a, b) == MagicLess(SubHeaderAt[a].identifier, SubHeaderAt[b].identifier)

\* std::ranges::sort(headers, HeaderPtrComp()): the pointers in ascending order,
\* equivalent ones in the order they had
RECURSIVE SortedPrefix(_, _)
SortedPrefix(ptrs, n) ==
    IF n = 0 THEN << >>
    ELSE LET s == SortedPrefix(ptrs, n - 1)
             x == ptrs[n]
             k == Cardinality({i \in 1 .. Len(s) : ~HeaderPtrComp(x, s[i])})
         IN  SubSeq(s, 1, k) \o <<x>> \o SubSeq(s, k + 1, Len(s))
Sorted(ptrs) == SortedPrefix(ptrs, Len(ptrs))

\* std::ranges::sort is not stable: two equivalent neighbours may come out either way
SortResults(ptrs) ==
    LET s == Sorted(ptrs)
    IN  {s} \cup { [s EXCEPT ![k] = s[k + 1], ![k + 1] = s[k]] :
                     k \in {i \in 1 .. (Len(s) - 1) : ~HeaderPtrComp(s[i], s[i + 1])} }

\* RootHeader root("test"); root.headers = the array of n default-constructed offset_ptr
DirectoryInit ==
    /\ ConstructRoot(MagicOf(<<116, 101, 115, 116>>), [wordSize |-> 8, endian |-> "little"])
    /\ bufBase \in WriterBases
    /\ \E n \in 0 .. MaxHeaders : headers = [k \in 1 .. n |-> NullRelation]
    /\ subHeaders = << >>
    /\ stage = "allocated"
    /\ overwritten = FALSE
    /\ host = [wordSize |-> 8, endian |-> "little"]
    /\ seen = Unread

\* the writer's loop: headers[nextIndex++] = &e for each sub-header e, an Ext1 and an
\* AppHeader at the places the application chose, the others made to look like
\* something else
FillDirectory ==
    /\ stage = "allocated"
    /\ bufBase \in WriterBases
    /\ \E posExt1 \in 0 .. Len(headers), posApp \in Places(Len(headers)), v \in AppStoredVersions :
         /\ posExt1 = 0 \/ posExt1 # posApp
         /\ subHeaders' =
                [j \in 1 .. Len(headers) |->
                    IF j = posExt1 THEN [identifier |-> Ext1Id, version |-> DefaultVersion]
                    ELSE IF j = posApp THEN [identifier |-> AppId, version |-> v]
                    ELSE [identifier |-> FillerId(j), version |-> DefaultVersion]]
    /\ headers' = StoreDirectory(bufBase, [k \in 1 .. Len(headers) |-> SubHeaderAddr(bufBase, k)])
    /\ stage' = "filled"
    /\ seen' = Unread
    /\ UNCHANGED <<identifier, decodelessMagic, decodelessVersion, platformBits, host,
                   bufBase, overwritten>>

\* e.identifier = id on a header already in the directory: a header type's identifier
\* is wiped, or the last header is given the identifier of Ext1
OverwriteIdentifier ==
    /\ stage # "allocated"
    /\ ~overwritten
    /\ bufBase \in WriterBases
    /\ \E j \in 1 .. Len(subHeaders), id \in {CorruptId, Ext1Id} :
         /\ \/ id = CorruptId /\ subHeaders[j].identifier \in HeaderTypes
            \/ id = Ext1Id /\ j = Len(subHeaders) /\ subHeaders[j].identifier # Ext1Id
         /\ subHeaders' = [subHeaders EXCEPT ![j].identifier = id]
    /\ stage' = "filled"
    /\ overwritten' = TRUE
    /\ seen' = Unread
    /\ UNCHANGED <<identifier, decodelessMagic, decodelessVersion, platformBits, headers, host,
                   bufBase>>

\* std::ranges::sort(rootHeader.headers, RootHeader::HeaderPtrComp())
SortHeaders ==
    /\ stage = "filled"
    /\ bufBase \in WriterBases
    /\ \E s \in SortResults(HeaderPtrs(bufBase, headers)) : headers' = StoreDirectory(bufBase, s)
    /\ stage' = "sorted"
    /\ seen' = Unread
    /\ UNCHANGED <<identifier, decodelessMagic, decodelessVersion, platformBits, host,
                   bufBase, subHeaders, overwritten>>

\* the bytes of the buffer are copied or mapped as they are d bytes away; what a reader
\* of the old mapping got stays with it
Relocate ==
    /\ stage # "filled"
    /\ bufBase \in WriterBases
    /\ \E d \in Relocations : bufBase' = bufBase + d
    /\ UNCHANGED <<identifier, decodelessMagic, decodelessVersion, platformBits, headers, host,
                   seen, subHeaders, stage, overwritten>>

(* ------------------------- concurrent readers -------------------------- *)
\* the number of readers of one published buffer
NumReaders == 2
Readers == 1 .. NumReaders

VARIABLES
    readers,    \* per reader: the calls it has made and what each returned
    alone       \* what each call returns to a reader that has the buffer to itself

readerVars == <<readers, alone>>

\* the const member functions of RootHeader a reader calls
ReaderCalls == {"magicValid", "binaryCompatible", "find", "findSupported"}

\* a reader that has called nothing yet
NotCalled == [done |-> {}, magicValid |-> FALSE, binaryCompatible |-> FALSE,
              find |-> [id \in HeaderTypes |-> NullPtr],
              findSupported |-> [id \in VersionedTypes |-> NullPtr]]

\* no reader: the specifications of the other components
ReadersIdle ==
    /\ readers = [r \in Readers |-> NotCalled]
    /\ alone = NotCalled

\* the platforms the published buffer is read on
ReaderHosts == {[wordSize |-> 8, endian |-> "little"], [wordSize |-> 4, endian |-> "little"]}
\* the directory sizes published: none, the largest scanned, the smallest searched
PublishedSizes == {0, LinearScanBelow - 1, LinearScanBelow}

\* a buffer as a writer published it: a root header, valid or with a damaged magic,
\* and a sorted directory with an Ext1 registered last and maybe an AppHeader first
PublishedInit ==
    /\ identifier = MagicOf(<<116, 101, 115, 116>>)
    /\ decodelessMagic \in {DecodelessMagic, [DecodelessMagic EXCEPT ![11] = CorruptByte]}
    /\ decodelessVersion = VersionSupported
    /\ platformBits = PlatformBits([wordSize |-> 8, endian |-> "little"])
    /\ host \in ReaderHosts
    /\ seen = Unread
    /\ bufBase \in WriterBases
    /\ \E n \in PublishedSizes, posApp \in {0, 1}, v \in AppStoredVersions :
         /\ posApp < n \/ posApp = 0
         /\ subHeaders =
                [j \in 1 .. n |->
                    IF j = posApp THEN [identifier |-> AppId, version |-> v]
                    ELSE IF j = n THEN [identifier |-> Ext1Id, version |-> DefaultVersion]
                    ELSE [identifier |-> FillerId(j), version |-> DefaultVersion]]
         /\ headers = StoreDirectory(bufBase,
                          Sorted([k \in 1 .. n |-> SubHeaderAddr(bufBase, k)]))
    /\ stage = "sorted"
    /\ overwritten = FALSE
    /\ readers = [r \in Readers |-> NotCalled]
    /\ alone = [done |-> ReaderCalls, magicValid |-> magicValid,
                binaryCompatible |-> binaryCompatible, find |-> find,
                findSupported |-> findSupported]

\* find() that moves the entry it found to the front of the directory
HeadersAfterFind_MoveToFront(raw, base, id) ==
    LET ptrs == HeaderPtrs(base, raw)
        hit  == Find(ptrs, id)
    IN  IF hit = NullPtr THEN raw
        ELSE StoreDirectory(base,
                 <<hit>> \o SelectSeq([k \in 1 .. Len(raw) |-> ptrs[k]], LAMBDA a : a # hit))

\* the directory after find<T>() ran on it: find is const and stores nothing
HeadersAfterFind(raw, base, id) == raw

\* the directory after a reader looked every header type up
RECURSIVE HeadersAfterFinds(_, _, _)
HeadersAfterFinds(raw, base, ids) ==
    IF ids = {} THEN raw
    ELSE LET id == CHOOSE i \in ids : TRUE
         IN  HeadersAfterFinds(HeadersAfterFind(raw, base, id), base, ids \ {id})

\* the order a reader makes its calls in: validate the root header, then look up
ReaderProgram == <<"magicValid", "binaryCompatible", "find", "findSupported">>

\* the call is the next one of reader r's program
Calls(r, call) ==
    /\ \E i \in 1 .. Len(ReaderProgram) :
         /\ ReaderProgram[i] = call
         /\ readers[r].done = {ReaderProgram[j] : j \in 1 .. (i - 1)}
    /\ alone' = alone
    /\ seen' = seen

\* reader r calls magicValid()
CallMagicValid(r) ==
    /\ Calls(r, "magicValid")
    /\ readers' = [readers EXCEPT ![r].done = @ \cup {"magicValid"},
                                  ![r].magicValid = magicValid]
    /\ UNCHANGED <<identifier, decodelessMagic, decodelessVersion, platformBits, headers, host,
                   bufferVars>>

\* reader r calls binaryCompatible()
CallBinaryCompatible(r) ==
    /\ Calls(r, "binaryCompatible")
    /\ readers' = [readers EXCEPT ![r].done = @ \cup {"binaryCompatible"},
                                  ![r].binaryCompatible = binaryCompatible]
    /\ UNCHANGED <<identifier, decodelessMagic, decodelessVersion, platformBits, headers, host,
                   bufferVars>>

\* reader r calls find<T>() for each header type
CallFind(r) ==
    /\ Calls(r, "find")
    /\ readers' = [readers EXCEPT ![r].done = @ \cup {"find"}, ![r].find = find]
    /\ headers' = HeadersAfterFinds(headers, bufBase, HeaderTypes)
    /\ UNCHANGED <<identifier, decodelessMagic, decodelessVersion, platformBits, host,
                   bufferVars>>

\* reader r calls findSupported<T>() for each versioned header type
CallFindSupported(r) ==
    /\ Calls(r, "findSupported")
    /\ readers' = [readers EXCEPT ![r].done = @ \cup {"findSupported"},
                                  ![r].findSupported = findSupported]
    /\ headers' = HeadersAfterFinds(headers, bufBase, VersionedTypes)
    /\ UNCHANGED <<identifier, decodelessMagic, decodelessVersion, platformBits, host,
                   bufferVars>>

(* --------------------------- specifications ---------------------------- *)
vars == <<arenaVars, versionVars, rootVars, bufferVars, readerVars>>

ArenaNext == Allocate \/ Deallocate \/ Reset
VersionNext == CheckVersion
RootNext == CorruptMagic \/ StoreVersion \/ ReadRoot

\* the allocator, every configuration
Init == ArenaInit /\ VersionIdle /\ RootIdle /\ ReadersIdle
Next == ArenaNext /\ UNCHANGED <<versionVars, rootVars, bufferVars, readerVars>>
Spec == Init /\ [][Next]_vars

\* the allocator with the handed-out ranges recorded
InitRanges == RangesInit /\ VersionIdle /\ RootIdle /\ ReadersIdle
SpecRanges == InitRanges /\ [][Next]_vars

\* the allocator from its construction to its destruction
LifetimeNext == ArenaNext \/ Destroy
InitLifetime == ArenaInit /\ VersionIdle /\ RootIdle /\ ReadersIdle
NextLifetime == LifetimeNext /\ UNCHANGED <<versionVars, rootVars, bufferVars, readerVars>>
SpecLifetime == InitLifetime /\ [][NextLifetime]_vars

\* Version::binaryCompatible on every pair of versions
InitVersion == ArenaIdle /\ VersionInit /\ RootIdle /\ ReadersIdle
NextVersion == VersionNext /\ UNCHANGED <<arenaVars, rootVars, bufferVars, readerVars>>
SpecVersion == InitVersion /\ [][NextVersion]_vars

\* a root header written on one platform and read on another
InitRoot == ArenaIdle /\ VersionIdle /\ RootInit /\ ReadersIdle
NextRoot == RootNext /\ UNCHANGED <<arenaVars, versionVars, readerVars>>
SpecRoot == InitRoot /\ [][NextRoot]_vars

\* a directory of 0 .. MaxHeaders sub-headers filled, sorted, moved and read
DirectoryNext == FillDirectory \/ OverwriteIdentifier \/ SortHeaders \/ Relocate \/ ReadRoot
InitDirectory == ArenaIdle /\ VersionIdle /\ DirectoryInit /\ ReadersIdle
NextDirectory == DirectoryNext /\ UNCHANGED <<arenaVars, versionVars, readerVars>>

SpecDirectory == InitDirectory /\ [][NextDirectory]_vars

\* NumReaders readers calling the const member functions of one published buffer
ReadersNext ==
    \E r \in Readers :
        CallMagicValid(r) \/ CallBinaryCompatible(r) \/ CallFind(r) \/ CallFindSupported(r)
InitReaders == ArenaIdle /\ VersionIdle /\ PublishedInit
NextReaders == ReadersNext /\ UNCHANGED <<arenaVars, versionVars>>
SpecReaders == InitReaders /\ [][NextReaders]_vars

(* ------------------------------- claims -------------------------------- *)
\* the smallest multiple of align that is >= n, as a number
RoundUp(n, align) == ((n + align - 1) \div align) * align

\* the step is a call of allocate
AllocateCalled == ret'.kind = "allocate"

\* C1: every successful allocate(bytes, align) returns the smallest address that is
\* >= the cursor and a multiple of align, and afterwards the cursor
\* (arena base + bytesAllocated()) is that address plus bytes.
C1_AllocateAligned ==
    [][ (AllocateCalled /\ ret'.ok) =>
          /\ ret'.addr = RoundUp(m_next, ret'.align)
          /\ (m_begin' + bytesAllocated') % W = (ret'.addr + ret'.bytes) % W ]_vars

\* C2: between two resets the ranges returned by successful allocate calls are pairwise
\* disjoint and handed out in non-decreasing address order (each starts at or after the
\* end of every earlier one), and deallocate changes neither the cursor nor the capacity.
C2_RangesDisjointOrdered ==
    [][ /\ (AllocateCalled /\ ret'.ok /\ tracked) => ret'.addr >= hwm
        /\ ret'.kind = "deallocate" => (m_next' = m_next /\ m_end' = m_end) ]_vars

\* C3: a failed allocate leaves bytesAllocated(), bytesReserved() and arena() as they
\* were before the call.
C3_FailureKeepsState ==
    [][ (AllocateCalled /\ ~ret'.ok) =>
          /\ bytesAllocated' = bytesAllocated
          /\ bytesReserved' = bytesReserved
          /\ arena' = arena ]_vars

\* C4: without reallocate, allocate succeeds if and only if the cursor rounded up to
\* align, plus bytes, is at most arena base + bytesReserved(), and throws otherwise.
C4_SucceedsIffFits ==
    [][ (AllocateCalled /\ ~canReallocate) =>
          (ret'.ok <=> RoundUp(m_next, ret'.align) + ret'.bytes <= m_begin + bytesReserved) ]_vars

\* C5: when the request exceeds the capacity and the parent offers reallocate, allocate
\* succeeds only if reallocate returned the base address; a different answer makes the
\* call fail, and arena() never changes.
C5_GrowOnlyInPlace ==
    [][ (AllocateCalled /\ canReallocate
           /\ RoundUp(m_next, ret'.align) + ret'.bytes > m_begin + bytesReserved) =>
          /\ ret'.ok => (ret'.called /\ ret'.answer = m_begin)
          /\ (ret'.called /\ ret'.answer # m_begin) => ~ret'.ok
          /\ arena' = arena ]_vars

\* C6: reset() sets bytesAllocated() to 0 and leaves arena() and bytesReserved() as the
\* constructor set them, and the calls made after it return the addresses and failures a
\* freshly constructed arena returns for the same calls.
C6_ResetReplays ==
    /\ arena = constructed.begin
    /\ bytesReserved = bytesReservedOf(constructed.end, constructed.begin)
    /\ ret.kind = "reset" => bytesAllocated = 0
    /\ g_next = m_next
    /\ g_ret = ret

\* C6 witness: after a reset that followed a failed call, an allocation succeeded at the
\* start of a buffer that does not start at address zero.
C6_Witness ==
    /\ wasReset /\ failedBefore
    /\ ret.kind = "allocate" /\ ret.ok /\ ret.addr = m_begin /\ m_begin # 0
    /\ ret.bytes > 0

\* C7: binaryCompatible(S, L) is true iff L.major is not the invalid value, the majors
\* are equal and S.minor >= L.minor; the patch fields never change the result, and a
\* default-constructed Version in either position makes it false.
C7_VersionRule ==
    checked =>
      /\ compat <=> /\ loaded.major # InvalidValue
                     /\ supported.major = loaded.major
                     /\ supported.minor >= loaded.minor
      /\ \A p, q \in VerVals :
            VersionBinaryCompatible([supported EXCEPT !.patch = p],
                                    [loaded EXCEPT !.patch = q]) = compat
      /\ (supported = DefaultVersion \/ loaded = DefaultVersion) => ~compat

\* C7 witness: a compatible pair with a newer supported minor and an older supported patch.
C7_Witness ==
    /\ checked /\ compat
    /\ supported.minor > loaded.minor
    /\ supported.patch < loaded.patch

\* C8 as stated: binaryCompatible(v, v) is true for every Version value v other than the
\* default-constructed invalid value.
C8_ReflexiveOffDefault ==
    (checked /\ supported = loaded /\ loaded # DefaultVersion) => compat

\* C8 as amended: binaryCompatible(v, v) is true for every v whose major is not the
\* invalid value.
C8_ReflexiveValidMajor ==
    (checked /\ supported = loaded /\ loaded.major # InvalidValue) => compat

\* C8 witness: a version with a valid major and an invalid minor compared with itself.
C8_Witness ==
    /\ checked /\ compat /\ supported = loaded
    /\ loaded.minor = InvalidValue

\* the fields of the root header other than the framework magic
OtherRootFields == <<identifier, decodelessVersion, platformBits, headers>>

\* C9: magicValid() is true iff all 16 stored bytes equal the constant; a freshly
\* constructed header is valid; changing one byte makes it false and changes no other
\* field, nor what binaryCompatible() and find() return.
C9_MagicValid ==
    /\ magicValid
    /\ [](/\ magicValid <=> \A i \in 1 .. MagicLen : decodelessMagic[i] = DecodelessMagic[i]
          /\ seen.read => (seen.magicValid <=> magicValid))
    /\ [][ decodelessMagic' # decodelessMagic =>
             /\ ~magicValid'
             /\ OtherRootFields' = OtherRootFields
             /\ binaryCompatible' = binaryCompatible
             /\ find' = find ]_vars

\* C9 witness: the reader saw an invalid magic whose only changed byte is the last one,
\* on a buffer that is still binary compatible and whose directory finds a header.
C9_Witness ==
    /\ seen.read /\ ~seen.magicValid
    /\ decodelessMagic[MagicLen] # DecodelessMagic[MagicLen]
    /\ seen.binaryCompatible
    /\ seen.find[Ext2Id] # NullPtr

\* the word-size bits and the byte-order bits of a fingerprint
WordSizeBits(bits) == bits \cap {ePlatformX32, ePlatformX64}
ByteOrderBits(bits) == bits \cap {ePlatformEndianBig, ePlatformEndianLittle}

\* C10: binaryCompatible() is true iff the stored version is compatible with {0,1,0}
\* under the version rule and the stored fingerprint equals the reader's; a header
\* constructed by this code and read on its own platform is compatible, and a fingerprint
\* differing in word size or byte order makes it false whatever the version.
C10_RootCompatible ==
    seen.read =>
      /\ seen.binaryCompatible <=>
            /\ decodelessVersion.major # InvalidValue
            /\ decodelessVersion.major = 0
            /\ decodelessVersion.minor <= 1
            /\ platformBits = PlatformBits(host)
      /\ (decodelessVersion = VersionSupported /\ platformBits = PlatformBits(host))
            => seen.binaryCompatible
      /\ (\/ WordSizeBits(platformBits) # WordSizeBits(PlatformBits(host))
          \/ ByteOrderBits(platformBits) # ByteOrderBits(PlatformBits(host)))
            => ~seen.binaryCompatible

\* C10 witness: a header storing a compatible version read as incompatible on a platform
\* of the same word size and the other byte order.
C10_Witness ==
    /\ seen.read /\ ~seen.binaryCompatible
    /\ VersionBinaryCompatible(VersionSupported, decodelessVersion)
    /\ WordSizeBits(platformBits) = WordSizeBits(PlatformBits(host))
    /\ ByteOrderBits(platformBits) # ByteOrderBits(PlatformBits(host))
\* the sub-headers the writer registered, and those that store an identifier
Registered == {SubHeaderAddr(bufBase, j) : j \in DOMAIN subHeaders}
Storing(id) == {j \in DOMAIN subHeaders : subHeaders[j].identifier = id}
DistinctIds ==
    \A i, j \in DOMAIN subHeaders :
        i # j => subHeaders[i].identifier # subHeaders[j].identifier
\* the addresses the slots of the directory resolve to
Pointers == HeaderPtrs(bufBase, headers)

\* the reader's results are those of the mapping the buffer is at now
ReadHere == seen.read /\ seen.base = bufBase
\* the reader's results are those of the mapping the buffer was moved from
ReadBefore == seen.read /\ seen.base # bufBase

\* C11: once sub-headers with pairwise distinct identifiers are registered and the
\* directory is sorted with HeaderPtrComp, whatever its size, the directory refers to
\* exactly the registered headers, and find<T>() returns the address of the registered
\* header that stores T::HeaderIdentifier, null when no registered header stores it
C11_DirectoryRoundTrip ==
    (stage = "sorted" /\ DistinctIds) =>
        /\ Len(headers) = Len(subHeaders)
        /\ {Pointers[k] : k \in 1 .. Len(headers)} = Registered
        /\ \A id \in HeaderTypes :
             find[id] = IF Storing(id) = {} THEN NullPtr
                        ELSE SubHeaderAddr(bufBase, CHOOSE j \in Storing(id) : TRUE)
        /\ ReadHere => seen.find = find

\* a sorted directory of the binary search, read after the identifier of its Ext1 was
\* wiped: Ext1 is not found, the AppHeader in the last registered object is
C11_Witness ==
    /\ stage = "sorted"
    /\ DistinctIds
    /\ Len(headers) >= LinearScanBelow
    /\ overwritten
    /\ Storing(CorruptId) # {}
    /\ ReadHere
    /\ seen.find[Ext1Id] = NullPtr
    /\ seen.find[AppId] = SubHeaderAddr(bufBase, Len(subHeaders))

\* the header object at an address stores a version VersionSupportedOf(id) can read
StoredCompatibleAt(addr, id) ==
    \E j \in DOMAIN subHeaders :
        /\ addr = SubHeaderAddr(bufBase, j)
        /\ VersionBinaryCompatible(VersionSupportedOf(id), subHeaders[j].version)

\* C12: findSupported<T>() returns the address find<T>() returns when that is not null
\* and Version::binaryCompatible(T::VersionSupported, the stored version) is true, and
\* null in every other case
C12_FindSupported ==
    stage # "allocated" =>
        /\ \A id \in VersionedTypes :
             findSupported[id] = IF find[id] # NullPtr /\ StoredCompatibleAt(find[id], id)
                                 THEN find[id] ELSE NullPtr
        /\ ReadHere => seen.findSupported = findSupported

\* an AppHeader that is present but stores a version the reader does not support
C12_Witness ==
    /\ stage = "sorted"
    /\ ReadHere
    /\ seen.find[AppId] # NullPtr
    /\ ~StoredCompatibleAt(seen.find[AppId], AppId)
    /\ seen.findSupported[AppId] = NullPtr

\* an address d bytes further, null staying null
Shifted(addr, d) == IF addr = NullPtr THEN NullPtr ELSE addr + d

\* C13: when the whole buffer is moved by d as raw bytes, every offset_ptr of the
\* directory refers to its old target + d, a null pointer stays null, and find() and
\* findSupported() on the moved buffer return what they returned before the move + d
C13_RelocationInvariant ==
    /\ [](ReadBefore =>
            /\ \A id \in HeaderTypes :
                 find[id] = Shifted(seen.find[id], bufBase - seen.base)
            /\ \A id \in VersionedTypes :
                 findSupported[id] = Shifted(seen.findSupported[id], bufBase - seen.base))
    /\ [][ bufBase' # bufBase =>
             /\ headers' = headers
             /\ subHeaders' = subHeaders
             /\ \A k \in 1 .. Len(headers) :
                  Pointers'[k] = Shifted(Pointers[k], bufBase' - bufBase) ]_vars

\* a sorted directory of the binary search moved after it was read: the AppHeader that
\* was found is now where its object now is, the Ext1 that was not found is still not
C13_Witness ==
    /\ ReadBefore
    /\ stage = "sorted"
    /\ Len(headers) >= LinearScanBelow
    /\ seen.find[Ext1Id] = NullPtr
    /\ seen.find[AppId] # NullPtr
    /\ \E j \in Storing(AppId) : find[AppId] = SubHeaderAddr(bufBase, j)
    /\ findSupported[AppId] = find[AppId]

\* the target of the first slot whose header stores the identifier, null without one
FirstStoring(id) ==
    LET hits == {k \in 1 .. Len(headers) :
                    \E j \in Storing(id) : Pointers[k] = SubHeaderAddr(bufBase, j)}
    IN  IF hits = {} THEN NullPtr
        ELSE Pointers[CHOOSE k \in hits : \A h \in hits : k <= h]

\* some slot of the directory is out of the ascending order
Unsorted == \E k \in 1 .. (Len(headers) - 1) : HeaderPtrComp(Pointers[k + 1], Pointers[k])

\* C18: in a directory of fewer than 16 entries find<T>() returns the first entry that
\* stores T::HeaderIdentifier, null when there is none, sorted or not
C18_LinearScanAnyOrder ==
    (stage # "allocated" /\ Len(headers) < LinearScanBelow) =>
        \A id \in HeaderTypes : find[id] = FirstStoring(id)

\* 15 entries out of order, two of them storing the identifier of Ext1
C18_Witness ==
    /\ stage = "filled"
    /\ Len(headers) = LinearScanBelow - 1
    /\ Unsorted
    /\ Cardinality(Storing(Ext1Id)) = 2
    /\ ReadHere
    /\ seen.find[Ext1Id] = FirstStoring(Ext1Id)
    /\ seen.find[Ext1Id] # NullPtr

\* from 16 entries on an unsorted directory hides a header that is there
C18_SortNeeded ==
    /\ stage = "filled"
    /\ Len(headers) >= LinearScanBelow
    /\ Unsorted
    /\ ReadHere
    /\ \E id \in HeaderTypes : Storing(id) # {} /\ seen.find[id] = NullPtr

\* C14: over the lifetime of one linear_memory_resource the parent's allocate is called
\* exactly once, at construction with initialSize, and its deallocate at most once and
\* only at destruction, with the pointer allocate returned and the byte count that was
\* obtained from the parent (initialSize, or the 2 * bytesReserved() asked of reallocate),
\* whatever allocate and reset calls came in between
C14_ParentCalls ==
    /\ parent.allocates = 1
    /\ parent.allocatedPtr = constructed.begin
    /\ parent.allocatedBytes = bytesReservedOf(constructed.end, constructed.begin)
    /\ parent.deallocates <= 1
    /\ parent.deallocates = 1 =>
         /\ ret.kind = "destroy"
         /\ parent.deallocatedPtr = parent.allocatedPtr
         /\ parent.deallocatedBytes \in {parent.allocatedBytes, (2 * bytesReserved) % W}

\* C15: every range a successful allocate returns lies inside the backing buffer as
\* the accessors describe it at the time of return: arena() <= addr and
\* addr + bytes <= arena() + bytesReserved(), also after growing in place, and then
\* bytesAllocated() <= bytesReserved()
C15_RangeInsideBuffer ==
    [][ (AllocateCalled /\ ret'.ok) =>
          /\ arena' <= ret'.addr
          /\ ret'.addr + ret'.bytes <= arena' + bytesReserved'
          /\ bytesAllocated' <= bytesReserved' ]_vars

\* C16: on an arena that cannot grow, a request whose aligned cursor + bytes overflows
\* the machine word is rejected: the call fails and returns no address
C16_WrapRejected ==
    [][ (AllocateCalled /\ ~canReallocate /\ RoundUp(m_next, ret'.align) + ret'.bytes >= W) =>
          ~ret'.ok ]_vars

\* C17: the first allocate that succeeds after construction or after reset() returns
\* arena(), whatever the alignment asked for
C17_FirstAtArena ==
    [][ (AllocateCalled /\ ret'.ok /\ ~handedOut) => ret'.addr = arena ]_vars

\* every byte of the published buffer
Buffer == <<identifier, decodelessMagic, decodelessVersion, platformBits, headers,
            bufBase, subHeaders>>

\* C19: magicValid(), binaryCompatible(), find<T>() and findSupported<T>() leave the
\* buffer unchanged, and whatever calls the readers of a published buffer have made,
\* in whatever order, each call returned what it returns to a reader that is alone
C19_ReadersPure ==
    /\ [](\A r \in Readers :
            /\ "magicValid" \in readers[r].done => readers[r].magicValid = alone.magicValid
            /\ "binaryCompatible" \in readers[r].done =>
                 readers[r].binaryCompatible = alone.binaryCompatible
            /\ "find" \in readers[r].done => readers[r].find = alone.find
            /\ "findSupported" \in readers[r].done =>
                 readers[r].findSupported = alone.findSupported)
    /\ [][Buffer' = Buffer]_vars

\* two readers have made all their calls on a directory of the binary search: each
\* found the Ext1 and the AppHeader, and the AppHeader's version is not supported
C19_Witness ==
    /\ \A r \in Readers : readers[r].done = ReaderCalls
    /\ Len(headers) >= LinearScanBelow
    /\ \A r \in Readers :
         /\ readers[r].magicValid
         /\ readers[r].find[Ext1Id] # NullPtr
         /\ readers[r].find[AppId] # NullPtr
         /\ readers[r].findSupported[AppId] = NullPtr

====
